---- MODULE Spec2Model ----
(***************************************************************************)
(* Model of monte_python/EnhancedWatershedSegmenter.py: the enhanced       *)
(* watershed labelling of a 2-D grid (quantize, find_local_maxima,         *)
(* grow_centers with set_maximum and remove_foothills, is_closest).        *)
(*                                                                         *)
(* Arrays are sequences of rows; coordinates are the 0-based (row, col)    *)
(* pairs of the program, so cell (r, c) of array a is a[r + 1][c + 1].     *)
(* Real input values are fixed-point numbers: the integer n stands for the *)
(* value n / Scale.                                                        *)
(***************************************************************************)
EXTENDS Integers, Sequences, FiniteSets, TLC

VARIABLES
    self,                 \* attributes set by __init__
    input_grid,           \* argument of label
    pc,                   \* position in label and the functions it calls
    err,                  \* exception raised, "" when none
    pixels, q_data,       \* quantize: Bin Index and Quantized Grid
    centers, flm_marked, flm_b, flm_k, infl_dist, MIN_INFL, MAX_INFL,
                          \* find_local_maxima: centers, its claim map, loop positions
    marked, deferred_from_last, deferred_to_next, capture_index, foothills,
    b, bin_lower, i,      \* grow_centers: Label Grid, seed queues, loop positions
    center, as_bin, as_glob, marked_so_far, will_be_considered_again, center_data,
                          \* set_maximum locals
    hills, foot_k, foot_center,
                          \* remove_foothills locals
    only_objects, result, \* label: its flag and the value it returns
    floods,               \* log of the set_maximum calls of the current label call
    calls, first,         \* number of label calls made, and the first call's grid and result
    seen,                 \* the grids label was called with so far
    marked_0,             \* marked as the set_maximum call in progress (or the last) found it
    examined,             \* the pixel last popped and the window elements read around it
    tracker,              \* ObjectTracker: attributes set by __init__
    track_data,           \* argument of track, relabel: label arrays, one per time
    tracks, track_t,      \* track: the array it relabels, and the time index t
    labels_before, labels_after, areas_before, areas_after,
                          \* track: matched pairs and areas of the step at t
    tpc,                  \* position in track
    future_0,             \* tracks[t+1] before the pairs of step t were applied
    before_0, after_0,    \* the lists check_for_mergers was called with
    closest               \* a call of is_closest on its own: arguments and value returned

vars == <<self, input_grid, pc, err, pixels, q_data,
          centers, flm_marked, flm_b, flm_k, infl_dist, MIN_INFL, MAX_INFL,
          marked, deferred_from_last, deferred_to_next, capture_index, foothills,
          b, bin_lower, i,
          center, as_bin, as_glob, marked_so_far, will_be_considered_again, center_data,
          hills, foot_k, foot_center, only_objects, result, floods, calls, first, seen,
          marked_0, examined,
          tracker, track_data, tracks, track_t, labels_before, labels_after,
          areas_before, areas_after, tpc, future_0, before_0, after_0, closest>>

qvars == <<pixels, q_data>>
flmvars == <<centers, flm_marked, flm_b, flm_k, infl_dist, MIN_INFL, MAX_INFL>>
growvars == <<marked, deferred_from_last, deferred_to_next, capture_index, foothills,
              b, bin_lower, i>>
smvars == <<center, as_bin, as_glob, marked_so_far, will_be_considered_again, center_data>>
rfvars == <<hills, foot_k, foot_center>>
callvars == <<self, input_grid, calls, first, seen>>
retvars == <<only_objects, result>>
labelvars == <<self, input_grid, pc, err, qvars, flmvars, growvars, smvars, rfvars,
               only_objects, result, floods, calls, first, seen, marked_0, examined>>
trackvars == <<tracker, track_data, tracks, track_t, labels_before, labels_after,
               areas_before, areas_after, tpc, future_0, before_0, after_0>>

----------------------------------------------------------------------------
(* Bounds of the model.                                                    *)

Scale == 2          \* input values are multiples of 1 / Scale
Rows == 5           \* shape of the grids label is applied to
Cols == 4
MaxCalls == 3       \* label calls made on one instance
FlatMax == 3        \* the flat grids hold the (fixed-point) values -FlatMax..FlatMax
QRows == 2          \* shape of the grids quantize is applied to on its own
QCols == 2
QValMax == 4        \* their cells hold the (fixed-point) values -QValMax..QValMax
TCols == 4           \* cells in the one row of a label array given to track
TFrames == 2         \* times in the array given to track
RCols == 3           \* cells in the one row of a label array given to relabel
RLabMax == 3         \* its cells hold the labels 0..RLabMax
MaxPairs == 3        \* pairs in the lists given to check_for_mergers
CMax == 1            \* coordinates of the points is_closest is called with
CBins == 2           \* highest bin of the centers is_closest is called with
MLabMax == 2         \* their labels are 1..MLabMax, with areas 1..MLabMax

----------------------------------------------------------------------------
(* Arithmetic of the Python / numpy expressions.                           *)

Max(x, y) == IF x >= y THEN x ELSE y
Min(x, y) == IF x <= y THEN x ELSE y

\* int(x / y) of Python for integers x, y with y # 0: true division, then
\* truncation toward zero.
TruncDiv(x, y) ==
    LET ax == IF x < 0 THEN -x ELSE x
        ay == IF y < 0 THEN -y ELSE y
        q  == ax \div ay
    IN  IF (x < 0) = (y < 0) THEN q ELSE -q

\* a cast that rounds down
AsInt32Floor(n) == n \div Scale
\* np.array(input_grid, dtype=np.int32) on one value n / Scale: the cast
\* drops the fraction (truncation toward zero).
AsInt32(n) == IF n >= 0 THEN n \div Scale ELSE -((-n) \div Scale)

\* np.round (round half to even) of the non-negative fraction num / den.
RoundHalfEven(num, den) ==
    LET q == num \div den
        r == num % den
    IN  IF 2 * r < den THEN q
        ELSE IF 2 * r > den THEN q + 1
        ELSE IF q % 2 = 0 THEN q ELSE q + 1

\* int(np.round(1 + 0.5 * np.sqrt(d))): the integer m nearest to
\* 1 + sqrt(d)/2, the even one at a tie.
RoundInfl(d) ==
    LET Near(m) == (2 * m - 3 <= 0 \/ (2 * m - 3) * (2 * m - 3) <= d)
                   /\ d <= (2 * m - 1) * (2 * m - 1)
        cand == {m \in 1..(d + 2) : Near(m)}
    IN  IF Cardinality(cand) = 1 THEN CHOOSE m \in cand : TRUE
        ELSE CHOOSE m \in cand : m % 2 = 0

\* the values of the locals before the first call reaches them
NoValue == <<>>

----------------------------------------------------------------------------
(* numpy arrays.                                                           *)

NumRows(a) == Len(a)
NumCols(a) == IF Len(a) = 0 THEN 0 ELSE Len(a[1])

\* a numpy index k on an axis of length n: negative indices count from the end
Norm(k, n) == IF k < 0 THEN k + n ELSE k
ValidIndex(k, n) == -n <= k /\ k < n
ValidPoint(a, p) == ValidIndex(p[1], NumRows(a)) /\ ValidIndex(p[2], NumCols(a))

\* a[p] and a[p] = v for a coordinate pair p
At(a, p) == a[Norm(p[1], NumRows(a)) + 1][Norm(p[2], NumCols(a)) + 1]
Put(a, p, v) ==
    [a EXCEPT ![Norm(p[1], NumRows(a)) + 1][Norm(p[2], NumCols(a)) + 1] = v]

Full(rows, cols, v) == [r \in 1..rows |-> [c \in 1..cols |-> v]]

\* the indices selected by the slice lo:hi on an axis of length n
SliceStart(lo, n) == IF lo < 0 THEN Max(lo + n, 0) ELSE Min(lo, n)
SliceStop(hi, n) == IF hi < 0 THEN Max(hi + n, 0) ELSE Min(hi, n)
SliceLen(lo, hi, n) == Max(SliceStop(hi, n) - SliceStart(lo, n), 0)

\* np.ndenumerate(a[p0-d : p0+d+1, p1-d : p1+d+1]) in its row-major order:
\* for each element the cell that is read (at) and the coordinate the code
\* computes for it from the index in the slice (as).
Window(a, p, d) ==
    LET r0 == SliceStart(p[1] - d, NumRows(a))
        c0 == SliceStart(p[2] - d, NumCols(a))
        nr == SliceLen(p[1] - d, p[1] + d + 1, NumRows(a))
        nc == SliceLen(p[2] - d, p[2] + d + 1, NumCols(a))
    IN  [k \in 1..(nr * nc) |->
            LET si == (k - 1) \div nc
                sj == (k - 1) % nc
            IN  [at |-> <<r0 + si, c0 + sj>>,
                 as |-> <<si - d + p[1], sj - d + p[2]>>]]

\* the cells of an array in row-major order
RowMajor(a) ==
    [k \in 1..(NumRows(a) * NumCols(a)) |->
        <<(k - 1) \div NumCols(a), (k - 1) % NumCols(a)>>]

Front(s) == SubSeq(s, 1, Len(s) - 1)
Last(s) == s[Len(s)]

----------------------------------------------------------------------------
(* __init__                                                                *)

UNMARKED == -1
GLOBBED == -3
TOOSMALL == -4
MinSize == 6

EnhancedWatershed(min_thresh, max_thresh, area_threshold, dist_btw_objects, data_increment) ==
    [min_thresh |-> min_thresh,
     data_increment |-> data_increment,
     max_thresh |-> max_thresh,
     max_size |-> area_threshold,
     min_size |-> MinSize,
     dist_btw_objects |-> dist_btw_objects,
     max_bin |-> TruncDiv(max_thresh - min_thresh, data_increment)]

----------------------------------------------------------------------------
(* quantize                                                                *)

\* QuantizeCell without the rule for min_thresh == 0 (line 317-318)
QuantizeCellOneRule(s, n) ==
    LET data == (AsInt32(n) - s.min_thresh) \div s.data_increment
        cut  == IF data < 0 THEN -1 ELSE data
    IN  IF cut > s.max_bin THEN s.max_bin ELSE cut

\* the level of one cell: lines 316-321
QuantizeCell(s, n) ==
    LET data == (AsInt32(n) - s.min_thresh) \div s.data_increment
        cut  == IF s.min_thresh = 0
                  THEN (IF data <= 0 THEN -1 ELSE data)
                  ELSE (IF data < 0 THEN -1 ELSE data)
    IN  IF cut > s.max_bin THEN s.max_bin ELSE cut

QuantizeData(s, grid) ==
    [r \in 1..NumRows(grid) |-> [c \in 1..NumCols(grid) |-> QuantizeCell(s, grid[r][c])]]

\* np.where(data >= 0) lists the cells in row-major order; each is appended
\* to the list of its level
QuantizePixels(s, data) ==
    [lev \in 0..s.max_bin |-> SelectSeq(RowMajor(data), LAMBDA p : At(data, p) = lev)]

----------------------------------------------------------------------------
(* label, line 61: pixels, q_data = self.quantize(input_grid)              *)

Quantize ==
    /\ pc = "label"
    /\ q_data' = QuantizeData(self, input_grid)
    /\ pixels' = QuantizePixels(self, q_data')
    /\ pc' = "find_local_maxima"
    /\ UNCHANGED <<err, flmvars, growvars, smvars, rfvars, callvars, retvars, floods>>
    /\ UNCHANGED marked_0
    /\ UNCHANGED examined
    /\ UNCHANGED trackvars
    /\ UNCHANGED closest

----------------------------------------------------------------------------
(* find_local_maxima                                                       *)

\* lines 101-107
FlmEnter ==
    /\ pc = "find_local_maxima"
    /\ centers' = [lev \in DOMAIN pixels |-> <<>>]
    /\ flm_marked' = Full(NumRows(q_data), NumCols(q_data), UNMARKED)
    /\ MIN_INFL' = RoundInfl(self.dist_btw_objects)
    /\ MAX_INFL' = 2 * MIN_INFL'
    /\ flm_b' = self.max_bin
    /\ flm_k' = 1
    /\ pc' = "flm_bin"
    /\ UNCHANGED <<err, qvars, infl_dist, growvars, smvars, rfvars, callvars, retvars, floods>>
    /\ UNCHANGED marked_0
    /\ UNCHANGED examined
    /\ UNCHANGED trackvars
    /\ UNCHANGED closest

\* line 115; the division raises ZeroDivisionError when max_bin is 0
InflDist(lev, s, lo, hi) == lo + RoundHalfEven(lev * (hi - lo), s.max_bin)

\* lines 113-115: the next bin of sorted(pixels.keys(), reverse=True)
FlmNextBin ==
    /\ pc = "flm_bin"
    /\ flm_b >= 0
    /\ IF self.max_bin = 0
         THEN /\ pc' = "raised"
              /\ err' = "ZeroDivisionError"
              /\ UNCHANGED <<infl_dist, flm_b, flm_k>>
         ELSE /\ infl_dist' = InflDist(flm_b, self, MIN_INFL, MAX_INFL)
              /\ flm_k' = 1
              /\ IF Len(pixels[flm_b]) = 0
                   THEN pc' = "flm_bin" /\ flm_b' = flm_b - 1
                   ELSE pc' = "flm_pixel" /\ flm_b' = flm_b
              /\ err' = err
    /\ UNCHANGED <<qvars, centers, flm_marked, MIN_INFL, MAX_INFL,
                   growvars, smvars, rfvars, callvars, retvars, floods>>
    /\ UNCHANGED marked_0
    /\ UNCHANGED examined
    /\ UNCHANGED trackvars
    /\ UNCHANGED closest

\* line 143: return centers; label line 63 then calls grow_centers
FlmReturn ==
    /\ pc = "flm_bin"
    /\ flm_b < 0
    /\ pc' = "grow_centers"
    /\ UNCHANGED <<err, qvars, flmvars, growvars, smvars, rfvars, callvars, retvars, floods>>
    /\ UNCHANGED marked_0
    /\ UNCHANGED examined
    /\ UNCHANGED trackvars
    /\ UNCHANGED closest

\* lines 125-135: the scan of the influence square of p from element k of
\* the window on, marking as it goes.  ok is the flag of the code; raised
\* tells that a marked[...] = b fell outside the array.
RECURSIVE ClaimScan(_, _, _, _, _, _)
ClaimStep(m, win, k, lev, ok, so_far) ==
    IF k > Len(win)
      THEN [marked |-> m, ok |-> ok, so_far |-> so_far, raised |-> FALSE]
      ELSE IF At(m, win[k].at) = UNMARKED
             THEN IF ValidPoint(m, win[k].as)
                    THEN ClaimScan(Put(m, win[k].as, lev), win, k + 1, lev, TRUE,
                                   Append(so_far, win[k].as))
                    ELSE [marked |-> m, ok |-> TRUE, so_far |-> so_far, raised |-> TRUE]
             ELSE [marked |-> m, ok |-> FALSE, so_far |-> so_far, raised |-> FALSE]

\* the scan from element k on, its array and lists taken by value
ClaimScan(m, win, k, lev, ok, so_far) ==
    CHOOSE scan \in {ClaimStep(mv, wv, k, lev, ok, sv) :
                         mv \in {m}, wv \in {win}, sv \in {so_far}} : TRUE

\* a roll-back that leaves the marks in place
UnmarkNone(m, so_far) == m
\* lines 141-142
RECURSIVE Unmark(_, _)
Unmark(m, so_far) ==
    IF Len(so_far) = 0 THEN m
    ELSE Unmark(Put(m, so_far[1], UNMARKED), Tail(so_far))

\* lines 117-142 for one pixel p of bin lev
ClaimAttempt(m, p, lev, d) ==
    IF At(m, p) # UNMARKED
      THEN [marked |-> m, ok |-> FALSE, raised |-> FALSE]
      ELSE LET scan == ClaimScan(m, Window(m, p, d), 1, lev, FALSE, <<>>)
           IN  IF scan.raised THEN [marked |-> scan.marked, ok |-> FALSE, raised |-> TRUE]
               ELSE IF scan.ok THEN [marked |-> scan.marked, ok |-> TRUE, raised |-> FALSE]
               ELSE [marked |-> Unmark(scan.marked, scan.so_far), ok |-> FALSE,
                     raised |-> FALSE]

\* lines 116-142: one iteration of "for p in pixels[b]"
FlmVisit ==
    /\ pc = "flm_pixel"
    /\ \E p \in {pixels[flm_b][flm_k]} :
       \E att \in {ClaimAttempt(flm_marked, p, flm_b, infl_dist)} :
           /\ flm_marked' = att.marked
           /\ IF att.raised
                THEN /\ pc' = "raised"
                     /\ err' = "IndexError"
                     /\ UNCHANGED <<centers, flm_b, flm_k>>
                ELSE /\ centers' = IF att.ok
                                     THEN [centers EXCEPT ![flm_b] = Append(@, p)]
                                     ELSE centers
                     /\ err' = err
                     /\ IF flm_k < Len(pixels[flm_b])
                          THEN pc' = "flm_pixel" /\ flm_k' = flm_k + 1 /\ flm_b' = flm_b
                          ELSE pc' = "flm_bin" /\ flm_k' = 1 /\ flm_b' = flm_b - 1
    /\ UNCHANGED <<qvars, infl_dist, MIN_INFL, MAX_INFL,
                   growvars, smvars, rfvars, callvars, retvars, floods>>
    /\ UNCHANGED marked_0
    /\ UNCHANGED examined
    /\ UNCHANGED trackvars
    /\ UNCHANGED closest

----------------------------------------------------------------------------
(* grow_centers                                                            *)

\* FirstIndex going on from the index the last call left
FirstIndexLeft(left) == IF left > 0 THEN left ELSE 1
\* line 161: capture_index is a local of grow_centers, set anew by each call
\* whatever the last call left
FirstIndex(left) == 1

\* lines 157-162; center_keys is max_bin, ..., 0
GrowEnter ==
    /\ pc = "grow_centers"
    /\ marked' = Full(NumRows(q_data), NumCols(q_data), UNMARKED)
    /\ deferred_from_last' = <<>>
    /\ deferred_to_next' = <<>>
    /\ capture_index' = FirstIndex(capture_index)
    /\ foothills' = <<>>
    /\ b' = self.max_bin
    /\ floods' = <<>>
    /\ pc' = "grow_bin"
    /\ UNCHANGED <<err, qvars, flmvars, bin_lower, i, smvars, rfvars, callvars, retvars>>
    /\ UNCHANGED marked_0
    /\ UNCHANGED examined
    /\ UNCHANGED trackvars
    /\ UNCHANGED closest

\* lines 164-170: the next bin of center_keys
GrowNextBin ==
    /\ pc = "grow_bin"
    /\ b >= 0
    /\ bin_lower' = b - 1
    /\ deferred_from_last' = deferred_to_next
    /\ deferred_to_next' = <<>>
    /\ i' = 0
    /\ pc' = "grow_seed"
    /\ UNCHANGED <<err, qvars, flmvars, marked, capture_index, foothills, b,
                   smvars, rfvars, callvars, retvars, floods>>
    /\ UNCHANGED marked_0
    /\ UNCHANGED examined
    /\ UNCHANGED trackvars
    /\ UNCHANGED closest

\* lines 168-170
TotCenters == Len(centers[b]) + Len(deferred_from_last)

\* a seed list with the centers of the bin ahead of the deferred seeds
SeedAtNewFirst(k) ==
    IF k < Len(centers[b])
      THEN centers[b][k + 1]
      ELSE deferred_from_last[k - Len(centers[b]) + 1]

\* lines 173-176
SeedAt(k) ==
    IF k < Len(deferred_from_last)
      THEN deferred_from_last[k + 1]
      ELSE centers[b][k - Len(deferred_from_last) + 1]

\* a bin_lower left below 0 at the lowest level
ClampLowerNot(lower) == lower
\* lines 177-178
ClampLower(lower) == IF lower < 0 THEN 0 ELSE lower

\* lines 171-180 and 209-214: the next seed; set_maximum is entered when the
\* seed is still UNMARKED
GrowSeed ==
    /\ pc = "grow_seed"
    /\ i < TotCenters
    /\ center' = SeedAt(i)
    /\ bin_lower' = ClampLower(bin_lower)
    /\ IF At(marked, center') = UNMARKED
         THEN /\ marked_0' = marked
              /\ as_bin' = <<center'>>
              /\ as_glob' = <<>>
              /\ marked_so_far' = <<>>
              /\ will_be_considered_again' = FALSE
              /\ center_data' = At(q_data, center')
              /\ i' = i
              /\ pc' = "set_maximum"
         ELSE /\ i' = i + 1
              /\ pc' = "grow_seed"
              /\ UNCHANGED <<marked_0, as_bin, as_glob, marked_so_far,
                             will_be_considered_again, center_data>>
    /\ UNCHANGED <<err, qvars, flmvars, marked, deferred_from_last, deferred_to_next,
                   capture_index, foothills, b, rfvars, callvars, retvars, floods>>
    /\ UNCHANGED examined
    /\ UNCHANGED trackvars
    /\ UNCHANGED closest

----------------------------------------------------------------------------
(* set_maximum                                                             *)

\* line 228
SeesLower(p_data, c_data) == p_data >= 0 /\ p_data < c_data
\* JoinsPeak reaching one level too low
JoinsPeakLow(p_data, lower) == p_data >= lower - 1
\* line 230
JoinsPeak(p_data, lower) == p_data >= lower
\* a glob candidate list that also takes the neighbours that join the peak
JoinsGlobAny(p_data, lower) == p_data >= 0
\* line 233
JoinsGlob(p_data, lower) == ~JoinsPeak(p_data, lower) /\ p_data >= 0

\* line 223-226: the elements of the 3x3 slice around p that read UNMARKED,
\* as the coordinates the code computes for them
UnmarkedAround(m, p) ==
    LET win == Window(m, p, 1)
        unm == SelectSeq(win, LAMBDA w : At(m, w.at) = UNMARKED)
    IN  [k \in 1..Len(unm) |-> unm[k].as]

\* a pop that reads the last element and leaves it on the list
PoppedNot(stack) == stack
\* the list a pop leaves behind (line 216, line 276)
Popped(stack) == Front(stack)

\* lines 215-234: one iteration of the while loop
SmPop ==
    /\ pc = "set_maximum"
    /\ Len(as_bin) > 0
    /\ LET p == Last(as_bin)
           rest == Popped(as_bin)
       IN  IF At(marked, p) # UNMARKED
             THEN /\ as_bin' = rest
                  /\ examined' = NoValue
                  /\ UNCHANGED <<pc, err, marked, as_glob, marked_so_far,
                                 will_be_considered_again>>
             ELSE \E m1 \in {Put(marked, p, capture_index)} :
                  \E nb \in {UnmarkedAround(m1, p)} :
                      /\ marked' = m1
                      /\ examined' = [p |-> p, win |-> Window(m1, p, 1)]
                      /\ marked_so_far' = Append(marked_so_far, p)
                      /\ IF \E k \in 1..Len(nb) : ~ValidPoint(q_data, nb[k])
                           THEN /\ pc' = "raised"
                                /\ err' = "IndexError"
                                /\ as_bin' = rest
                                /\ UNCHANGED <<as_glob, will_be_considered_again>>
                           ELSE /\ will_be_considered_again' =
                                     (will_be_considered_again \/
                                      \E k \in 1..Len(nb) :
                                          SeesLower(At(q_data, nb[k]), center_data))
                                /\ as_bin' = rest \o SelectSeq(nb,
                                     LAMBDA x : JoinsPeak(At(q_data, x), bin_lower))
                                /\ as_glob' = as_glob \o SelectSeq(nb,
                                     LAMBDA x : JoinsGlob(At(q_data, x), bin_lower))
                                /\ UNCHANGED <<pc, err>>
    /\ UNCHANGED <<qvars, flmvars, deferred_from_last, deferred_to_next, capture_index,
                   foothills, b, bin_lower, i, center, center_data,
                   rfvars, callvars, retvars, floods>>
    /\ UNCHANGED marked_0
    /\ UNCHANGED trackvars
    /\ UNCHANGED closest

\* a flood that is never taken up again
ReconsiderNever(again, lower) == FALSE
\* Reconsider without the rule for the lowest level
ReconsiderAtZero(again, lower) == again
\* line 235-236
Reconsider(again, lower) == IF lower = 0 THEN FALSE ELSE again
\* BigEnough that asks for more than max_size pixels
BigEnoughAbove(n, s) == n > s.max_size
\* BigEnough with the comparison turned round
BigEnoughBelow(n, s) == n <= s.max_size
\* line 237
BigEnough(n, s) == n >= s.max_size
\* TooSmall with the comparison turned round
TooSmallAbove(n, s) == n >= s.min_size
\* line 242
TooSmall(n, s) == n <= s.min_size
\* line 252
Captured(big, again) == big \/ ~again
\* NextIndex that never moves on
NextIndexSame(index, captured) == index
\* NextIndex that moves on whatever set_maximum returned
NextIndexAlways(index, captured) == index + 1
\* lines 181-185
NextIndex(index, captured) == IF captured THEN index + 1 ELSE index

\* the cells of a list of coordinates
CellsOf(m, seq) ==
    {<<Norm(seq[k][1], NumRows(m)), Norm(seq[k][2], NumCols(m))>> : k \in 1..Len(seq)}

\* lines 235-252, and lines 181-185 of grow_centers on the value returned
SmReturn ==
    /\ pc = "set_maximum"
    /\ Len(as_bin) = 0
    /\ LET again == Reconsider(will_be_considered_again, bin_lower)
           n == Len(marked_so_far)
           big_enough == BigEnough(n, self)
           undo == ~big_enough /\ (TooSmall(n, self) \/ again)
           captured == Captured(big_enough, again)
       IN  /\ will_be_considered_again' = again
           /\ foothills' = IF big_enough
                             THEN Append(foothills, <<center, as_glob>>)
                             ELSE foothills
           /\ marked' = IF undo THEN Unmark(marked, marked_so_far) ELSE marked
           /\ as_glob' = IF ~big_enough /\ ~TooSmall(n, self) /\ again THEN <<>> ELSE as_glob
           /\ marked_so_far' = IF ~big_enough /\ ~TooSmall(n, self) /\ again
                                 THEN <<>> ELSE marked_so_far
           /\ deferred_to_next' = IF captured THEN deferred_to_next
                                  ELSE Append(deferred_to_next, center)
           /\ capture_index' = NextIndex(capture_index, captured)
           /\ floods' = Append(floods,
                  [center |-> center, b |-> b, bin_lower |-> bin_lower,
                   index |-> capture_index, size |-> n,
                   cells |-> CellsOf(marked, marked_so_far),
                   big_enough |-> big_enough, captured |-> captured,
                   kept |-> ~undo])
    /\ i' = i + 1
    /\ pc' = "grow_seed"
    /\ UNCHANGED <<err, qvars, flmvars, deferred_from_last, b, bin_lower,
                   center, as_bin, center_data, rfvars, callvars, retvars>>
    /\ UNCHANGED marked_0
    /\ UNCHANGED examined
    /\ UNCHANGED trackvars
    /\ UNCHANGED closest

----------------------------------------------------------------------------
(* remove_foothills and is_closest                                         *)

\* lines 292-294, 298
Dist2(x, y) == (x[1] - y[1]) * (x[1] - y[1]) + (x[2] - y[2]) * (x[2] - y[2])

\* is_closest that compares the centers of every bin
ClosestOfAll(point, c0, cs, bin_num) ==
    \A o_bin \in 0..(Cardinality(DOMAIN cs) - 1) :
        \A k \in 1..Len(cs[o_bin]) : ~(Dist2(point, cs[o_bin][k]) < Dist2(point, c0))
\* lines 290-300
is_closest(point, c0, cs, bin_num) ==
    LET bin_thresh == bin_num \div 2
        my_dist == Dist2(point, c0)
    IN  \A o_bin \in bin_thresh..(Cardinality(DOMAIN cs) - 1) :
            \A k \in 1..Len(cs[o_bin]) : ~(Dist2(point, cs[o_bin][k]) < my_dist)

\* line 187 and line 269: the call at the end of a bin level
RfEnter ==
    /\ pc = "grow_seed"
    /\ i >= TotCenters
    /\ hills' = <<>>
    /\ foot_k' = 1
    /\ pc' = "remove_foothills"
    /\ UNCHANGED <<err, qvars, flmvars, growvars, smvars, foot_center,
                   callvars, retvars, floods>>
    /\ UNCHANGED marked_0
    /\ UNCHANGED examined
    /\ UNCHANGED trackvars
    /\ UNCHANGED closest

\* lines 270-272: the next record of foothills
RfNextFoot ==
    /\ pc = "remove_foothills"
    /\ Len(hills) = 0
    /\ foot_k <= Len(foothills)
    /\ foot_center' = foothills[foot_k][1]
    /\ hills' = foothills[foot_k][2]
    /\ foot_k' = foot_k + 1
    /\ UNCHANGED <<pc, err, qvars, flmvars, growvars, smvars, callvars, retvars, floods>>
    /\ UNCHANGED marked_0
    /\ UNCHANGED examined
    /\ UNCHANGED trackvars
    /\ UNCHANGED closest

\* lines 283-285
IsFoothill(q, index, pt, lower, c0, cs, bin_num) ==
    /\ At(q, index) >= 0
    /\ At(q, index) < lower
    /\ (At(q, index) <= At(q, pt) \/ is_closest(index, c0, cs, bin_num))

\* lines 274-286: one iteration of the while loop
RfPop ==
    /\ pc = "remove_foothills"
    /\ Len(hills) > 0
    /\ LET pt == Last(hills)
           rest == Popped(hills)
       IN  \E m1 \in {Put(marked, pt, GLOBBED)} :
           \E nb \in {UnmarkedAround(m1, pt)} :
           /\ marked' = m1
           /\ examined' = [p |-> pt, win |-> Window(m1, pt, 1)]
           /\ IF \E k \in 1..Len(nb) : ~ValidPoint(q_data, nb[k])
                THEN /\ pc' = "raised"
                     /\ err' = "IndexError"
                     /\ hills' = rest
                ELSE /\ hills' = rest \o SelectSeq(nb,
                          LAMBDA x : IsFoothill(q_data, x, pt, bin_lower, foot_center,
                                                centers, b))
                     /\ UNCHANGED <<pc, err>>
    /\ UNCHANGED <<qvars, flmvars, deferred_from_last, deferred_to_next, capture_index,
                   foothills, b, bin_lower, i, smvars, foot_k, foot_center,
                   callvars, retvars, floods>>
    /\ UNCHANGED marked_0
    /\ UNCHANGED trackvars
    /\ UNCHANGED closest

\* line 287, and the step of "for b in center_keys" to the next lower bin
RfReturn ==
    /\ pc = "remove_foothills"
    /\ Len(hills) = 0
    /\ foot_k > Len(foothills)
    /\ foothills' = <<>>
    /\ b' = b - 1
    /\ pc' = "grow_bin"
    /\ UNCHANGED <<err, qvars, flmvars, marked, deferred_from_last, deferred_to_next,
                   capture_index, bin_lower, i, smvars, rfvars, callvars, retvars, floods>>
    /\ UNCHANGED marked_0
    /\ UNCHANGED examined
    /\ UNCHANGED trackvars
    /\ UNCHANGED closest

----------------------------------------------------------------------------
(* label, lines 63-66                                                      *)

\* line 65: np.where(marked > 0, marked, 0)
OnlyObjects(m) ==
    [r \in 1..NumRows(m) |-> [c \in 1..NumCols(m) |->
        IF m[r][c] > 0 THEN m[r][c] ELSE 0]]

\* lines 188-190 of grow_centers, then lines 64-66 of label
LabelReturn ==
    /\ pc = "grow_bin"
    /\ b < 0
    /\ \E flag \in BOOLEAN :
          /\ only_objects' = flag
          /\ result' = IF flag THEN OnlyObjects(marked) ELSE marked
    /\ deferred_from_last' = <<>>
    /\ deferred_to_next' = <<>>
    /\ pc' = "done"
    /\ first' = IF calls = 1
                  THEN [input_grid |-> input_grid, only_objects |-> only_objects',
                        result |-> result']
                  ELSE first
    /\ UNCHANGED <<err, qvars, flmvars, marked, capture_index, foothills, b, bin_lower, i,
                   smvars, rfvars, self, input_grid, calls, seen, floods>>
    /\ UNCHANGED marked_0
    /\ UNCHANGED examined
    /\ UNCHANGED trackvars
    /\ UNCHANGED closest

----------------------------------------------------------------------------
(* object_tracking.py: label arrays.  A 2-D label array is a sequence of   *)
(* rows, a 3-D one a sequence of 2-D arrays, one per time.                 *)

\* the cells of the mask arr == v
Where(arr, v) == {x \in (1..Len(arr)) \X (1..Len(arr[1])) : arr[x[1]][x[2]] = v}
ValuesOf(arr) == {arr[r][c] : r \in 1..Len(arr), c \in 1..Len(arr[1])}
ValuesOfAll(arrs) == UNION {ValuesOf(arrs[k]) : k \in 1..Len(arrs)}
Replace(arr, v, w) ==
    [r \in 1..Len(arr) |-> [c \in 1..Len(arr[1]) |-> IF arr[r][c] = v THEN w ELSE arr[r][c]]]

ToSet(seq) == {seq[k] : k \in 1..Len(seq)}

\* np.unique: the distinct values in ascending order
RECURSIVE Unique(_)
Unique(S) ==
    IF S = {} THEN <<>>
    ELSE LET least == CHOOSE x \in S : \A y \in S : x <= y
         IN  <<least>> \o Unique(S \ {least})

\* a sequence less its first element: unique_labels[1:], labels_sorted[1:]
Rest(seq) == IF Len(seq) = 0 THEN <<>> ELSE Tail(seq)

\* np.unique(arr)[1:]
LabelsOf(arr) == Rest(Unique(ValuesOf(arr)))

\* list.index: the first position that holds v
IndexOf(seq, v) == CHOOSE k \in 1..Len(seq) : seq[k] = v /\ \A j \in 1..(k - 1) : seq[j] # v

Without(seq, k) == SubSeq(seq, 1, k - 1) \o SubSeq(seq, k + 1, Len(seq))

\* __init__, with percent_overlap the fraction num / den and mend_tracks False
ObjectTracker(num, den) == [percent_overlap |-> <<num, den>>, mend_tracks |-> FALSE]

\* lines 164-168
get_area(arr) == [label \in ToSet(LabelsOf(arr)) |-> Cardinality(Where(arr, label))]

\* lines 264-271: the arrays from time k on, num being the next free label
RECURSIVE UniqueFrom(_, _, _)
UniqueFrom(arrs, k, num) ==
    IF k > Len(arrs) THEN <<>>
    ELSE LET current_obj == arrs[k]
             ls == LabelsOf(current_obj)
             frame == [r \in 1..Len(current_obj) |-> [c \in 1..Len(current_obj[1]) |->
                         IF current_obj[r][c] \in ToSet(ls)
                           THEN num + IndexOf(ls, current_obj[r][c]) - 1
                           ELSE 0]]
         IN  <<frame>> \o UniqueFrom(arrs, k + 1, num + Len(ls))

get_unique_labels(arrs) == UniqueFrom(arrs, 1, 1)

\* regionprops: one region per label above 0, in ascending order of label
Regions(arr) == Unique({v \in ValuesOf(arr) : v > 0})

\* lines 322-328, the quotient as the fraction <<numerator, denominator>>
percent_intersection(arr_a, label_a, arr_b, label_b) ==
    <<Cardinality(Where(arr_a, label_a) \cap Where(arr_b, label_b)),
      Cardinality(Where(arr_a, label_a)) + Cardinality(Where(arr_b, label_b))>>

\* x > y for fractions with positive denominators
Above(x, y) == x[1] * y[2] > y[1] * x[2]

\* lines 347-354: the dictionary as the sequence of its items in insertion order
find_possible_matches(trk, data_a, data_b) ==
    LET ra == Regions(data_a)
        rb == Regions(data_b)
        all == [k \in 1..(Len(ra) * Len(rb)) |->
                   LET la == ra[((k - 1) \div Len(rb)) + 1]
                       lb == rb[((k - 1) % Len(rb)) + 1]
                   IN  [pair |-> <<la, lb>>,
                        score |-> percent_intersection(data_a, la, data_b, lb)]]
    IN  SelectSeq(all, LAMBDA it : Above(it.score, trk.percent_overlap))

\* line 300: sorted(..., reverse=True) is stable, items of equal score keep
\* their order
RECURSIVE SortedByScore(_)
SortedByScore(items) ==
    IF Len(items) = 0 THEN <<>>
    ELSE LET k == CHOOSE j \in 1..Len(items) :
                      /\ \A m \in 1..Len(items) : ~Above(items[m].score, items[j].score)
                      /\ \A m \in 1..(j - 1) : Above(items[j].score, items[m].score)
         IN  <<items[k]>> \o SortedByScore(Without(items, k))

\* a matching that accepts every possible pair
MatchAll(items, k, set_a, set_b) ==
    <<[j \in 1..Len(items) |-> items[j].pair[1]],
      [j \in 1..Len(items) |-> items[j].pair[2]]>>

\* lines 301-307 from item k on
RECURSIVE MatchFrom(_, _, _, _)
MatchFrom(items, k, set_a, set_b) ==
    IF k > Len(items) THEN <<set_a, set_b>>
    ELSE LET label_a == items[k].pair[1]
             label_b == items[k].pair[2]
         IN  IF label_a \notin ToSet(set_a) /\ label_b \notin ToSet(set_b)
               THEN MatchFrom(items, k + 1, Append(set_a, label_a), Append(set_b, label_b))
               ELSE MatchFrom(items, k + 1, set_a, set_b)

\* lines 294-314
match(trk, data_a, data_b) ==
    MatchFrom(SortedByScore(find_possible_matches(trk, data_a, data_b)), 1, <<>>, <<>>)

Occurrences(seq, v) == Cardinality({k \in 1..Len(seq) : seq[k] = v})

\* the labels that occur more than once (lines 196-199, 237-239)
Repeated(seq) == SelectSeq(Unique(ToSet(seq)), LAMBDA l : Occurrences(seq, l) > 1)

\* [l for i, l in enumerate(keep) if by[i] == label] (lines 203, 243)
PotentialLabels(keep, by, label) ==
    LET at == SelectSeq([k \in 1..Len(by) |-> k], LAMBDA k : by[k] = label)
    IN  [k \in 1..Len(at) |-> keep[at[k]]]

\* np.argsort(xs): positions in ascending order of value, equal values in
\* the order of their positions (the sort of short arrays is an insertion sort)
RECURSIVE Argsort(_, _)
Argsort(xs, left) ==
    IF left = {} THEN <<>>
    ELSE LET k == CHOOSE j \in left :
                      \A m \in left : xs[j] < xs[m] \/ (xs[j] = xs[m] /\ j <= m)
         IN  <<k>> \o Argsort(xs, left \ {k})

Reversed(seq) == [k \in 1..Len(seq) |-> seq[Len(seq) + 1 - k]]

\* lines 206-207, 246-247: the potential labels, largest area first
SortedByArea(potential, areas) ==
    LET inds == Reversed(Argsort([k \in 1..Len(potential) |-> areas[potential[k]]],
                                 1..Len(potential)))
    IN  [k \in 1..Len(inds) |-> potential[inds[k]]]

\* lines 208-211 (249-252): for each label of drop, the pair at the first
\* position of the label in the list find is deleted from both lists
RECURSIVE DeleteEach(_, _, _, _)
DeleteEach(drop, k, find, other) ==
    IF k > Len(drop) THEN <<find, other>>
    ELSE LET index == IndexOf(find, drop[k])
         IN  DeleteEach(drop, k + 1, Without(find, index), Without(other, index))

\* lines 201-211 from merged label k on
RECURSIVE MergersFrom(_, _, _, _, _)
MergersFrom(merged_labels, k, before, after, areas) ==
    IF k > Len(merged_labels) THEN <<before, after>>
    ELSE LET potential == PotentialLabels(before, after, merged_labels[k])
             labels_sorted == SortedByArea(potential, areas)
             left == DeleteEach(Rest(labels_sorted), 1, before, after)
         IN  MergersFrom(merged_labels, k + 1, left[1], left[2], areas)

\* lines 196-213; the value is <<labels_before, labels_after>>
check_for_mergers(before, after, areas) ==
    MergersFrom(Repeated(after), 1, before, after, areas)

\* lines 241-252 from split label k on
RECURSIVE SplitsFrom(_, _, _, _, _)
SplitsFrom(split_labels, k, before, after, areas) ==
    IF k > Len(split_labels) THEN <<before, after>>
    ELSE LET potential == PotentialLabels(after, before, split_labels[k])
             labels_sorted == SortedByArea(potential, areas)
             left == DeleteEach(Rest(labels_sorted), 1, after, before)
         IN  SplitsFrom(split_labels, k + 1, left[2], left[1], areas)

\* lines 237-254; the value is <<labels_before, labels_after>>
check_for_splits(before, after, areas) ==
    SplitsFrom(Repeated(before), 1, before, after, areas)

\* lines 117-118 from pair k on; the mask is taken from the array as the
\* earlier pairs left it
RECURSIVE ApplyPairs(_, _, _, _)
ApplyPairs(future_data, before, after, k) ==
    IF k > Len(before) THEN future_data
    ELSE ApplyPairs(Replace(future_data, after[k], before[k]), before, after, k + 1)

\* lines 275-281: every mask is taken from the array relabel was given
relabel(arrs) ==
    LET unique_labels == Rest(Unique(ValuesOfAll(arrs)))
    IN  [k \in 1..Len(arrs) |-> [r \in 1..Len(arrs[k]) |-> [c \in 1..Len(arrs[k][1]) |->
            IF arrs[k][r][c] \in ToSet(unique_labels)
              THEN IndexOf(unique_labels, arrs[k][r][c])
              ELSE arrs[k][r][c]]]]

----------------------------------------------------------------------------
(* ObjectTracker.track                                                     *)

\* lines 88-96: data is 3-dimensional
TrackEnter ==
    /\ tpc = "track"
    /\ tracks' = get_unique_labels(track_data)
    /\ track_t' = 0
    /\ tpc' = IF Len(track_data) > 1 THEN "match" ELSE "relabel"
    /\ UNCHANGED <<tracker, track_data, labels_before, labels_after, areas_before,
                   areas_after, future_0, before_0, after_0>>
    /\ UNCHANGED labelvars
    /\ UNCHANGED closest

\* lines 101-106; current_data is tracks[t], future_data is tracks[t+1]
TrackMatch ==
    /\ tpc = "match"
    /\ \E found \in {match(tracker, tracks[track_t + 1], tracks[track_t + 2])} :
          /\ labels_before' = found[1]
          /\ labels_after' = found[2]
    /\ areas_before' = get_area(tracks[track_t + 1])
    /\ areas_after' = get_area(tracks[track_t + 2])
    /\ tpc' = "check_for_mergers"
    /\ UNCHANGED <<tracker, track_data, tracks, track_t, future_0, before_0, after_0>>
    /\ UNCHANGED labelvars
    /\ UNCHANGED closest

\* line 109
TrackMergers ==
    /\ tpc = "check_for_mergers"
    /\ \E left \in {check_for_mergers(labels_before, labels_after, areas_before)} :
          /\ labels_before' = left[1]
          /\ labels_after' = left[2]
    /\ before_0' = labels_before
    /\ after_0' = labels_after
    /\ tpc' = "check_for_splits"
    /\ UNCHANGED <<tracker, track_data, tracks, track_t, areas_before, areas_after, future_0>>
    /\ UNCHANGED labelvars
    /\ UNCHANGED closest

\* line 112
TrackSplits ==
    /\ tpc = "check_for_splits"
    /\ \E left \in {check_for_splits(labels_before, labels_after, areas_after)} :
          /\ labels_before' = left[1]
          /\ labels_after' = left[2]
    /\ tpc' = "apply"
    /\ UNCHANGED <<tracker, track_data, tracks, track_t, areas_before, areas_after,
                   future_0, before_0, after_0>>
    /\ UNCHANGED labelvars
    /\ UNCHANGED closest

\* lines 117-118, and the step of "for t" to the next time
TrackApply ==
    /\ tpc = "apply"
    /\ future_0' = tracks[track_t + 2]
    /\ tracks' = [tracks EXCEPT ![track_t + 2] = ApplyPairs(@, labels_before, labels_after, 1)]
    /\ track_t' = track_t + 1
    /\ tpc' = IF track_t' < Len(tracks) - 1 THEN "match" ELSE "relabel"
    /\ UNCHANGED <<tracker, track_data, labels_before, labels_after, areas_before,
                   areas_after, before_0, after_0>>
    /\ UNCHANGED labelvars
    /\ UNCHANGED closest

\* lines 121-130, mend_tracks being False
TrackReturn ==
    /\ tpc = "relabel"
    /\ tracks' = relabel(tracks)
    /\ tpc' = "done"
    /\ UNCHANGED <<tracker, track_data, track_t, labels_before, labels_after, areas_before,
                   areas_after, future_0, before_0, after_0>>
    /\ UNCHANGED labelvars
    /\ UNCHANGED closest

\* a call of relabel on its own
Relabel ==
    /\ tpc = "relabel_call"
    /\ tracks' = relabel(track_data)
    /\ tpc' = "done"
    /\ UNCHANGED <<tracker, track_data, track_t, labels_before, labels_after, areas_before,
                   areas_after, future_0, before_0, after_0>>
    /\ UNCHANGED labelvars
    /\ UNCHANGED closest

\* a call of check_for_mergers on its own
CheckForMergers ==
    /\ tpc = "mergers_call"
    /\ \E left \in {check_for_mergers(labels_before, labels_after, areas_before)} :
          /\ labels_before' = left[1]
          /\ labels_after' = left[2]
    /\ before_0' = labels_before
    /\ after_0' = labels_after
    /\ tpc' = "done"
    /\ UNCHANGED <<tracker, track_data, tracks, track_t, areas_before, areas_after, future_0>>
    /\ UNCHANGED labelvars
    /\ UNCHANGED closest

----------------------------------------------------------------------------
(* The grids and instances label is applied to.                            *)

\* the fixed-point number of the integer value v
Fix(v) == v * Scale

\* rows of a landscape: a flat row at one value, or a row that is 0 but for
\* one cell of value 3 in column 1
FlatRow(v) == [c \in 1..Cols |-> Fix(v)]
PeakRow == [c \in 1..Cols |-> IF c = 2 THEN Fix(3) ELSE Fix(0)]
RowKinds == {FlatRow(0), FlatRow(1), FlatRow(3), PeakRow}

\* a landscape: rows 0, 1 and 2 of kinds k0, k1 and k2, all rows below of kind k3
Landscape(k0, k1, k2, k3) ==
    [r \in 1..Rows |-> IF r = 1 THEN k0 ELSE IF r = 2 THEN k1 ELSE IF r = 3 THEN k2 ELSE k3]

Grids ==
    {Landscape(k0, k1, k2, k3) : k0 \in RowKinds, k1 \in RowKinds,
                                 k2 \in RowKinds, k3 \in RowKinds}

\* the grids that hold one value in every cell
FlatGrids == {[r \in 1..Rows |-> [c \in 1..Cols |-> n]] : n \in -FlatMax..FlatMax}

\* the grids labelled repeatedly by one instance
AgainGrids ==
    {Landscape(FlatRow(1), FlatRow(1), FlatRow(3), FlatRow(3)),
     Landscape(FlatRow(0), PeakRow, FlatRow(0), FlatRow(1)),
     Landscape(FlatRow(0), FlatRow(0), FlatRow(0), FlatRow(0))}

\* instances: thresholds 0..3 with area_threshold 8 and 3, a positive and a
\* negative min_thresh, and the degenerate max_thresh = min_thresh and
\* max_thresh < min_thresh
Instances ==
    {EnhancedWatershed(0, 3, 8, 0, 1),
     EnhancedWatershed(-1, 3, 8, 0, 1),
     EnhancedWatershed(0, 3, 3, 0, 1),
     EnhancedWatershed(1, 3, 30, 0, 1),
     EnhancedWatershed(1, 1, 8, 0, 1),
     EnhancedWatershed(2, 1, 8, 0, 1)}

AgainInstances == {EnhancedWatershed(0, 3, 8, 0, 1), EnhancedWatershed(-1, 3, 8, 0, 1)}

LiveInstances == {EnhancedWatershed(0, 3, 8, 0, 1), EnhancedWatershed(-1, 3, 8, 0, 1)}

\* grids for the runs followed to their end
LiveGrids ==
    AgainGrids \cup {Landscape(FlatRow(0), k1, k2, FlatRow(1)) : k1, k2 \in RowKinds}

LocalsUnset ==
    /\ err = ""
    /\ pixels = NoValue /\ q_data = NoValue
    /\ centers = NoValue /\ flm_marked = NoValue /\ flm_b = 0 /\ flm_k = 0
    /\ infl_dist = 0 /\ MIN_INFL = 0 /\ MAX_INFL = 0
    /\ marked = NoValue /\ deferred_from_last = NoValue /\ deferred_to_next = NoValue
    /\ capture_index = 0 /\ foothills = NoValue /\ b = 0 /\ bin_lower = 0 /\ i = 0
    /\ center = NoValue /\ as_bin = NoValue /\ as_glob = NoValue
    /\ marked_so_far = NoValue /\ will_be_considered_again = FALSE /\ center_data = 0
    /\ hills = NoValue /\ foot_k = 0 /\ foot_center = NoValue
    /\ only_objects = TRUE /\ result = NoValue
    /\ floods = NoValue
    /\ marked_0 = NoValue /\ examined = NoValue

\* the tracker before track is called
NoTrack ==
    /\ tracker = NoValue /\ track_data = NoValue /\ tracks = NoValue /\ track_t = 0
    /\ labels_before = NoValue /\ labels_after = NoValue
    /\ areas_before = NoValue /\ areas_after = NoValue
    /\ tpc = "idle"
    /\ future_0 = NoValue /\ before_0 = NoValue /\ after_0 = NoValue

InitLocals ==
    /\ pc = "label"
    /\ NoTrack
    /\ LocalsUnset
    /\ calls = 1 /\ first = NoValue /\ seen = {input_grid}
    /\ closest = NoValue

\* the segmenter before label is called
NoLabel ==
    /\ self = NoValue /\ input_grid = NoValue
    /\ pc = "idle"
    /\ LocalsUnset
    /\ calls = 0 /\ first = NoValue /\ seen = {}

Init ==
    /\ self \in Instances
    /\ input_grid \in Grids \cup FlatGrids
    /\ InitLocals

Next ==
    \/ Quantize
    \/ FlmEnter \/ FlmNextBin \/ FlmVisit \/ FlmReturn
    \/ GrowEnter \/ GrowNextBin \/ GrowSeed
    \/ SmPop \/ SmReturn
    \/ RfEnter \/ RfNextFoot \/ RfPop \/ RfReturn
    \/ LabelReturn

Spec == Init /\ [][Next]_vars

\* label runs in one thread without suspension points: a step that can be
\* taken is taken
InitLive ==
    /\ self \in LiveInstances
    /\ input_grid \in LiveGrids
    /\ InitLocals

LiveSpec == InitLive /\ [][Next]_vars /\ WF_vars(Next)

\* a further call of label on the same instance, once the last has returned
LabelAgain ==
    /\ pc = "done"
    /\ calls < MaxCalls
    /\ input_grid' \in AgainGrids
    /\ calls' = calls + 1
    /\ seen' = seen \cup {input_grid'}
    /\ pc' = "label"
    /\ UNCHANGED <<self, first, err, qvars, flmvars, growvars, smvars, rfvars, retvars, floods>>
    /\ UNCHANGED marked_0
    /\ UNCHANGED examined
    /\ UNCHANGED trackvars
    /\ UNCHANGED closest

InitAgain ==
    /\ self \in AgainInstances
    /\ input_grid \in AgainGrids
    /\ InitLocals

NextAgain == Next \/ LabelAgain

SpecAgain == InitAgain /\ [][NextAgain]_vars

\* a ridge: every cell below min_thresh, but for a seed of value s at (1, 1),
\* a trail of value v down column 1 to row 4, and the first e cells of
\* column 2 from row 1 on at value v
Ridge(s, v, e) ==
    [r \in 1..Rows |-> [c \in 1..Cols |->
        IF r = 2 /\ c = 2 THEN Fix(s)
        ELSE IF c = 2 /\ r \in 3..5 THEN Fix(v)
        ELSE IF c = 3 /\ r \in 2..(1 + e) THEN Fix(v)
        ELSE Fix(-2)]]

RidgeGrids == {Ridge(s, v, e) : s \in 1..3, v \in 0..2, e \in 0..4}

\* terraces: landscapes of flat rows, some of them below min_thresh
TerraceKinds == {FlatRow(-2), FlatRow(-1), FlatRow(0), FlatRow(1)}
TerraceGrids ==
    {Landscape(k0, k1, k2, k3) : k0 \in TerraceKinds, k1 \in TerraceKinds,
                                 k2 \in TerraceKinds, k3 \in TerraceKinds}

\* instances with seven and with five bin levels
TerrainInstances == {EnhancedWatershed(-1, 5, 8, 0, 1), EnhancedWatershed(-1, 3, 8, 0, 1)}

InitTerrain ==
    /\ self \in TerrainInstances
    /\ input_grid \in RidgeGrids \cup TerraceGrids
    /\ InitLocals

SpecTerrain == InitTerrain /\ [][Next]_vars

\* the runs on ridges followed to their end: label runs on without a pause
\* until it returns or raises
InitLiveTerrain ==
    /\ self \in TerrainInstances
    /\ input_grid \in RidgeGrids \cup AgainGrids
    /\ InitLocals

LiveTerrain == InitLiveTerrain /\ [][Next]_vars /\ WF_vars(Next)

\* quantize on its own: grids of QRows x QCols cells whose cell of row-major
\* rank k holds the value v[k % 3 + 1] of three values, and instances with
\* min_thresh below, at and above 0, a data_increment of 2 and max_bin down
\* to -2
QGrids ==
    {[r \in 1..QRows |-> [c \in 1..QCols |-> v[(((r - 1) * QCols + c - 1) % 3) + 1]]] :
        v \in [1..3 -> -QValMax..QValMax]}

QInstances ==
    {EnhancedWatershed(0, 3, 8, 0, 1), EnhancedWatershed(-1, 1, 8, 0, 1),
     EnhancedWatershed(-2, 2, 8, 0, 2), EnhancedWatershed(0, 2, 8, 0, 2),
     EnhancedWatershed(1, 1, 8, 0, 1), EnhancedWatershed(2, 0, 8, 0, 1)}

InitQ ==
    /\ self \in QInstances
    /\ input_grid \in QGrids
    /\ InitLocals

NextQ == Quantize

SpecQ == InitQ /\ [][NextQ]_vars

----------------------------------------------------------------------------
(* The label arrays and lists the tracker is applied to.                   *)

\* a row of TCols cells: lead cells of 0, then label 1 up to cell j, label 2
\* up to cell k, and 0 behind
TrackRow(lead, j, k) ==
    [c \in 1..TCols |-> IF c <= lead THEN 0 ELSE IF c <= j THEN 1 ELSE IF c <= k THEN 2 ELSE 0]

\* the 2-D arrays of one row
TrackFrames ==
    {<<TrackRow(lead, j, k)>> : lead \in 0..2, j \in 0..TCols, k \in 0..TCols}

\* the 3-D arrays of TFrames times
TrackInputs == [1..TFrames -> TrackFrames]

Trackers == {ObjectTracker(0, 1)}

InitTrack ==
    /\ NoLabel
    /\ closest = NoValue
    /\ tracker \in Trackers
    /\ track_data \in TrackInputs
    /\ tracks = NoValue /\ track_t = 0
    /\ labels_before = NoValue /\ labels_after = NoValue
    /\ areas_before = NoValue /\ areas_after = NoValue
    /\ tpc = "track"
    /\ future_0 = NoValue /\ before_0 = NoValue /\ after_0 = NoValue

NextTrack ==
    \/ TrackEnter \/ TrackMatch \/ TrackMergers \/ TrackSplits \/ TrackApply
    \/ TrackReturn

SpecTrack == InitTrack /\ [][NextTrack]_vars

\* relabel on its own: one time, one row of RCols cells
RelabelInputs == {<<<<row>>>> : row \in [1..RCols -> 0..RLabMax]}

InitRelabel ==
    /\ NoLabel
    /\ closest = NoValue
    /\ tracker \in Trackers
    /\ track_data \in RelabelInputs
    /\ tracks = NoValue /\ track_t = 0
    /\ labels_before = NoValue /\ labels_after = NoValue
    /\ areas_before = NoValue /\ areas_after = NoValue
    /\ tpc = "relabel_call"
    /\ future_0 = NoValue /\ before_0 = NoValue /\ after_0 = NoValue

NextRelabel == Relabel

SpecRelabel == InitRelabel /\ [][NextRelabel]_vars

\* check_for_mergers on its own: paired lists of up to MaxPairs labels and an
\* area for every label
LabelLists == UNION {[1..n -> 1..MLabMax] : n \in 0..MaxPairs}

InitMergers ==
    /\ NoLabel
    /\ closest = NoValue
    /\ tracker \in Trackers
    /\ track_data = NoValue /\ tracks = NoValue /\ track_t = 0
    /\ labels_before \in LabelLists
    /\ labels_after \in {l \in LabelLists : Len(l) = Len(labels_before)}
    /\ areas_before \in [1..MLabMax -> 1..MLabMax]
    /\ areas_after = NoValue
    /\ tpc = "mergers_call"
    /\ future_0 = NoValue /\ before_0 = NoValue /\ after_0 = NoValue

NextMergers == CheckForMergers

SpecMergers == InitMergers /\ [][NextMergers]_vars

\* a call of is_closest on its own; returned is empty until the call
\* returns and holds the value returned from then on
IsClosest ==
    /\ closest # NoValue
    /\ closest.returned = NoValue
    /\ closest' = [closest EXCEPT !.returned =
                       <<is_closest(closest.point, closest.center, closest.centers,
                                    closest.bin_num)>>]
    /\ UNCHANGED labelvars
    /\ UNCHANGED trackvars

\* is_closest on its own: points with coordinates 0..CMax, a center and
\* recorded centers at three corners, at most one in each of the bins 0..CBins
ClosestPoints == {<<r, c>> : r \in 0..CMax, c \in 0..CMax}
ClosestCenters == {<<0, 0>>, <<0, CMax>>, <<CMax, CMax>>}
ClosestCalls ==
    {[point |-> p, center |-> c0, centers |-> cs, bin_num |-> n, returned |-> NoValue] :
        p \in ClosestPoints, c0 \in ClosestCenters,
        cs \in [0..CBins -> {<<>>} \cup {<<c>> : c \in ClosestCenters}],
        n \in 0..CBins}

InitClosest ==
    /\ NoLabel
    /\ NoTrack
    /\ closest \in ClosestCalls

NextClosest == IsClosest

SpecClosest == InitClosest /\ [][NextClosest]_vars

----------------------------------------------------------------------------
(* Properties.                                                             *)

CellsIn(m) == {<<r, c>> : r \in 0..(NumRows(m) - 1), c \in 0..(NumCols(m) - 1)}
PositiveLabels(m) == {At(m, x) : x \in {y \in CellsIn(m) : At(m, y) > 0}}
Covered(m, k) == {x \in CellsIn(m) : At(m, x) = k}
Returned == pc = "done"

\* C1: the positive labels of the grid label returns with only_objects=True
\* are exactly 1..K, K being the number of distinct positive labels.
C1_LabelsDense ==
    (Returned /\ only_objects) =>
        PositiveLabels(result) = 1..Cardinality(PositiveLabels(result))

\* C2: every positive label of the returned grid covers more than min_size
\* pixels, whatever the area_threshold.
C2_AboveMinSize ==
    Returned => \A k \in PositiveLabels(result) :
                    Cardinality(Covered(result, k)) > self.min_size

\* C2 as amended: every positive label of the returned grid covers more than
\* min_size pixels or at least area_threshold pixels.
C2_AboveMinSizeOrThreshold ==
    Returned => \A k \in PositiveLabels(result) :
                    \/ Cardinality(Covered(result, k)) > self.min_size
                    \/ Cardinality(Covered(result, k)) >= self.max_size

C2_Witness ==
    /\ Returned
    /\ self.max_size > self.min_size
    /\ \E k \in PositiveLabels(result) : Cardinality(Covered(result, k)) = self.max_size

\* the floods that set_maximum finalized because the maximum size was reached
Capped == {k \in 1..Len(floods) : floods[k].big_enough}

\* C3: an object captured because its flood reached the maximum size covers
\* at most area_threshold pixels of the returned grid.
C3_CappedAtMost ==
    Returned => \A k \in Capped :
                    Cardinality(Covered(result, floods[k].index)) <= self.max_size

\* C3 as amended: such an object covers at least area_threshold pixels, all
\* the pixels its flood marked.
C3_CappedAtLeast ==
    Returned => \A k \in Capped :
                    /\ Cardinality(Covered(result, floods[k].index)) >= self.max_size
                    /\ Cardinality(Covered(result, floods[k].index)) = floods[k].size

C3_Witness ==
    /\ Returned
    /\ \E k \in Capped : Cardinality(Covered(result, floods[k].index)) > self.max_size

\* the floods that set_maximum finalized with their marks left in the grid
Kept == {k \in 1..Len(floods) : floods[k].kept}

Adjacent(x, y) ==
    /\ x # y
    /\ x[1] - y[1] \in {-1, 0, 1}
    /\ x[2] - y[2] \in {-1, 0, 1}

\* the cells of S that an 8-connected path inside S joins to a cell of R
RECURSIVE Reach(_, _)
Reach(S, R) ==
    LET more == {x \in S \ R : \E y \in R : Adjacent(x, y)}
    IN  IF more = {} THEN R ELSE Reach(S, R \cup more)

\* C6: in the grid grow_centers returns, the pixels of each positive label
\* are 8-connected and are the pixels marked by exactly one flood, whose seed
\* center carries the label.
C6_OneFloodPerLabel ==
    Returned =>
        \A l \in PositiveLabels(marked) :
            /\ Cardinality({k \in Kept : floods[k].index = l}) = 1
            /\ \A k \in Kept : floods[k].index = l =>
                   /\ Covered(marked, l) = floods[k].cells
                   /\ At(marked, floods[k].center) = l
                   /\ Reach(Covered(marked, l), CellsOf(marked, <<floods[k].center>>))
                          = Covered(marked, l)

C6_Witness ==
    /\ Returned
    /\ \E k \in Kept : \E j \in 1..Len(floods) :
           /\ ~floods[j].captured
           /\ floods[j].index = floods[k].index
           /\ floods[k].index \in PositiveLabels(marked)

GrowPcs == {"grow_bin", "grow_seed", "set_maximum", "remove_foothills", "done"}

\* every pixel that carries the label of a finalized flood is at or above
\* the bin_lower of the set_maximum call that finalized it
AboveLower ==
    pc \in GrowPcs =>
        \A k \in Kept : \A x \in Covered(marked, floods[k].index) :
            At(q_data, x) >= floods[k].bin_lower

\* a step of grow_centers sets to GLOBBED only UNMARKED pixels below the
\* bin_lower of the level, and a GLOBBED pixel stays GLOBBED
GlobbedBelow ==
    (pc \in GrowPcs /\ pc' \in GrowPcs) =>
        \A x \in CellsIn(marked) :
            /\ At(marked, x) = GLOBBED => At(marked', x) = GLOBBED
            /\ (At(marked', x) = GLOBBED /\ At(marked, x) # GLOBBED) =>
                   /\ At(marked, x) = UNMARKED
                   /\ At(q_data, x) >= 0
                   /\ At(q_data, x) < bin_lower

\* C7: every pixel carrying a region's label has quantized value >= the
\* bin_lower of the set_maximum call that captured the region; the pixels
\* below bin_lower absorbed as foothills are GLOBBED and never carry a
\* positive label.
C7_NothingBelowLower == []AboveLower /\ [][GlobbedBelow]_vars

C7_Witness ==
    /\ Returned
    /\ \E k \in Kept : floods[k].bin_lower >= 1
    /\ \E x \in CellsIn(marked) : At(marked, x) = GLOBBED

\* C8: every label call comes to an end, and so does each flood loop of
\* set_maximum, each foothill loop of remove_foothills and the bin loop of
\* grow_centers.
C8_Terminates ==
    /\ <>(pc \in {"done", "raised"})
    /\ (pc = "set_maximum") ~> (pc = "grow_seed")
    /\ (pc = "remove_foothills") ~> (pc = "grow_bin")
    /\ (pc = "grow_bin") ~> (pc = "done")

C8_Witness ==
    /\ Returned
    /\ \E k \in 1..Len(floods) : floods[k].size > 1
    /\ \E x \in CellsIn(marked) : At(marked, x) = GLOBBED
    /\ self.max_bin >= 2

\* C9: a later call of label on the same instance with the grid (and flag) of
\* the first call returns the grid the first call returned, whatever grids
\* were labelled in between.
C9_Deterministic ==
    (pc = "done" /\ calls > 1 /\ input_grid = first.input_grid
                 /\ only_objects = first.only_objects)
        => result = first.result

C9_Witness ==
    /\ pc = "done" /\ calls >= 3
    /\ input_grid = first.input_grid /\ only_objects = first.only_objects
    /\ Cardinality(seen) >= 2
    /\ Cardinality(PositiveLabels(result)) >= 1
    /\ capture_index > 2

\* the integer part of the fixed-point number n (rounding toward zero)
IntPart(n) ==
    CHOOSE t \in -(n * n + 1)..(n * n + 1) :
        IF n >= 0 THEN Fix(t) <= n /\ n < Fix(t + 1)
                  ELSE Fix(t - 1) < n /\ n <= Fix(t)

\* floor(num / den) for den > 0
FloorOf(num, den) ==
    CHOOSE l \in -(num * num + 1)..(num * num + 1) :
        l * den <= num /\ num < (l + 1) * den

\* the exclusion and the clamp applied to a level
Excluded(s, level) == IF s.min_thresh = 0 THEN level <= 0 ELSE level < 0
Clamped(s, level) == IF level > s.max_bin THEN s.max_bin ELSE level
LevelOf(s, level) == Clamped(s, IF Excluded(s, level) THEN -1 ELSE level)

\* the rank of a cell in the row-major scan
Rank(g, x) == x[1] * NumCols(g) + x[2]

\* pixels lists under each level 0..max_bin exactly the cells of that level,
\* in row-major order
BinIndexOf(s, q, bins) ==
    /\ DOMAIN bins = 0..s.max_bin
    /\ \A x \in CellsIn(q) : At(q, x) >= 0 => At(q, x) \in DOMAIN bins
    /\ \A lev \in DOMAIN bins :
          /\ {bins[lev][k] : k \in 1..Len(bins[lev])} = {x \in CellsIn(q) : At(q, x) = lev}
          /\ \A j, k \in 1..Len(bins[lev]) :
                j < k => Rank(q, bins[lev][j]) < Rank(q, bins[lev][k])

Quantized == pc = "find_local_maxima"

\* C10 as stated: the level of a cell is the floor of (value - min_thresh) / step
\* taken on the real value of the cell, then excluded and clamped, and the
\* Bin Index lists the cells of each level in row-major order.
C10_FloorOfValue ==
    Quantized =>
        /\ \A x \in CellsIn(input_grid) :
              At(q_data, x) =
                  LevelOf(self, FloorOf(At(input_grid, x) - Fix(self.min_thresh),
                                        Fix(self.data_increment)))
        /\ BinIndexOf(self, q_data, pixels)

\* C10 as amended: the level of a cell is the floor of (t - min_thresh) / step
\* for the integer part t of the cell's value, then excluded and clamped, and
\* the Bin Index lists the cells of each level in row-major order.
C10_FloorOfIntPart ==
    Quantized =>
        /\ \A x \in CellsIn(input_grid) :
              At(q_data, x) =
                  LevelOf(self, FloorOf(IntPart(At(input_grid, x)) - self.min_thresh,
                                        self.data_increment))
        /\ BinIndexOf(self, q_data, pixels)

\* a negative value with a fraction that is given a level, beside an excluded
\* and a clamped cell
C10_Witness ==
    /\ Quantized
    /\ \E x \in CellsIn(input_grid) :
          /\ At(input_grid, x) < 0 /\ At(input_grid, x) % Scale # 0
          /\ At(q_data, x) >= 0
    /\ \E x \in CellsIn(q_data) : At(q_data, x) = -1
    /\ \E x \in CellsIn(input_grid) :
          /\ IntPart(At(input_grid, x)) - self.min_thresh > self.max_bin * self.data_increment
          /\ At(q_data, x) = self.max_bin
    /\ \E lev \in DOMAIN pixels : Len(pixels[lev]) >= 2

\* the grid holds one value in every cell
Uniform(g) == \A r \in 1..NumRows(g) : \A c \in 1..NumCols(g) : g[r][c] = g[1][1]
AllZero(g) == \A r \in 1..NumRows(g) : \A c \in 1..NumCols(g) : g[r][c] = 0
NoCenter == centers = NoValue \/ \A lev \in DOMAIN centers : centers[lev] = <<>>

\* what label returns holds no object: all zeros with only_objects=True
NoObject == (only_objects => AllZero(result)) /\ PositiveLabels(result) = {}

\* C4: on a grid whose cells all hold one value v <= min_thresh, label
\* returns all zeros and find_local_maxima records no center.
C4_FlatBelow ==
    (Uniform(input_grid) /\ input_grid[1][1] <= Fix(self.min_thresh)) =>
        /\ NoCenter
        /\ Returned => NoObject

\* C4 as amended: on a grid whose cells all hold one value whose integer part
\* is below min_thresh, or equal to it when min_thresh is 0, label returns
\* all zeros (if it returns) and find_local_maxima records no center.
C4_FlatExcluded ==
    (/\ Uniform(input_grid)
     /\ \/ IntPart(input_grid[1][1]) < self.min_thresh
        \/ self.min_thresh = 0 /\ IntPart(input_grid[1][1]) = 0) =>
        /\ NoCenter
        /\ Returned => NoObject

C4_Witness ==
    /\ Returned
    /\ Uniform(input_grid)
    /\ self.min_thresh = 0
    /\ input_grid[1][1] = 0
    /\ self.max_bin > 0
    /\ only_objects
    /\ AllZero(result)

\* C5: with max_bin <= 0 label does not fail: no exception is raised.
C5_NoFailure == self.max_bin <= 0 => pc # "raised"

\* the step on which set_maximum returns, and the value it returns
SmReturns == pc = "set_maximum" /\ pc' = "grow_seed"
ReturnedFalse == SmReturns /\ ~Last(floods').captured

\* a return of False leaves the Label Grid as the call found it, adds no
\* foothill record and no capture index, and queues the seed for the next level
RolledBack ==
    ReturnedFalse =>
        /\ marked' = marked_0
        /\ foothills' = foothills
        /\ capture_index' = capture_index
        /\ deferred_to_next' = Append(deferred_to_next, center)
        /\ deferred_from_last' = deferred_from_last

\* C14: whenever set_maximum returns false the Label Grid is as it was before
\* the call, no foothill record was added, and grow_centers queues the same
\* seed for the next lower level without incrementing capture_index.
C14_FalseLeavesGrid == [][RolledBack]_vars

C14_Witness ==
    /\ pc = "grow_seed" /\ floods # NoValue /\ Len(floods) > 0
    /\ ~Last(floods).captured /\ Last(floods).size > 1
    /\ marked = marked_0
    /\ Len(deferred_to_next) > 0 /\ Last(deferred_to_next) = Last(floods).center
    /\ capture_index = Last(floods).index

\* set_maximum returns from a flood of at most min_size pixels that is below
\* the maximum size
ReturnsSmall ==
    /\ SmReturns
    /\ Len(marked_so_far) <= self.min_size
    /\ Len(marked_so_far) < self.max_size

\* the seed is dropped: True is returned and the seed is not queued again
Discarded == Last(floods').captured /\ deferred_to_next' = deferred_to_next
\* the seed is queued for the next lower level: False is returned
Requeued == ~Last(floods').captured /\ deferred_to_next' = Append(deferred_to_next, center)

SmallDiscarded == ReturnsSmall => (marked' = marked_0 /\ Discarded)

\* C15 as stated: a flood that ends with at most min_size pixels (and below the
\* maximum size) has its pixels reset to UNMARKED and its seed discarded:
\* set_maximum returns true and the seed is not queued again.
C15_SmallDiscarded == [][SmallDiscarded]_vars

\* the flood met an unmarked neighbour of a level from 0 to below the seed's,
\* and the level it ran at is not 0
GrowsLower == will_be_considered_again /\ bin_lower # 0

SmallDiscardedOrRequeued ==
    ReturnsSmall =>
        /\ marked' = marked_0
        /\ foothills' = foothills
        /\ IF GrowsLower
             THEN Requeued /\ capture_index' = capture_index
             ELSE Discarded /\ capture_index' = capture_index + 1

\* C15 as amended: such a flood has its pixels reset to UNMARKED; its seed is
\* discarded (true returned, capture_index moved on) only if the flood met no
\* lower neighbour to grow into or ran at level 0, and is queued for the
\* next lower level (false returned) otherwise.
C15_SmallDiscardedOrRequeued == [][SmallDiscardedOrRequeued]_vars

C15_Witness ==
    /\ pc = "grow_seed" /\ floods # NoValue /\ Len(floods) > 1
    /\ Last(floods).size <= MinSize /\ Last(floods).size < self.max_size
    /\ Last(floods).size > 1
    /\ Last(floods).captured /\ marked = marked_0
    /\ \E k \in 1..(Len(floods) - 1) :
          /\ floods[k].size <= MinSize /\ floods[k].size < self.max_size
          /\ ~floods[k].captured

\* the cells of the 3x3 square around p that lie in the array a
Clipped(a, p) ==
    {<<r, c>> : r \in Max(p[1] - 1, 0)..Min(p[1] + 1, NumRows(a) - 1),
                c \in Max(p[2] - 1, 0)..Min(p[2] + 1, NumCols(a) - 1)}

\* C16: for a pixel popped anywhere in the grid, set_maximum and
\* remove_foothills examine exactly the in-bounds cells of its 3x3 window,
\* and every cell read is used under its own coordinate (none outside the
\* grid, none wrapped around).
C16_ClippedWindow ==
    (pc \in {"set_maximum", "remove_foothills", "raised"} /\ examined # NoValue) =>
        /\ {examined.win[k].at : k \in 1..Len(examined.win)} = Clipped(marked, examined.p)
        /\ \A k \in 1..Len(examined.win) : examined.win[k].as = examined.win[k].at

\* the cells within d of p that lie in the array a
ClippedSquare(a, p, d) ==
    {<<r, c>> : r \in Max(p[1] - d, 0)..Min(p[1] + d, NumRows(a) - 1),
                c \in Max(p[2] - d, 0)..Min(p[2] + d, NumCols(a) - 1)}

\* the pixel find_local_maxima visits in this step
Visited == pixels[flm_b][flm_k]

\* find_local_maxima visits a pixel whose clipped influence square is all
\* UNMARKED
VisitsFree ==
    /\ pc = "flm_pixel"
    /\ \A c \in ClippedSquare(flm_marked, Visited, infl_dist) :
           At(flm_marked, c) = UNMARKED

FreeIsCenter ==
    VisitsFree =>
        /\ pc' # "raised"
        /\ centers'[flm_b] = Append(centers[flm_b], Visited)

\* C17: in find_local_maxima a pixel of bin b whose influence square, clipped
\* to the grid, is entirely UNMARKED when it is visited is recorded as a
\* center of bin b, wherever it lies in the grid (so the first pixel of the
\* highest non-empty bin always is).
C17_FreeIsCenter == [][FreeIsCenter]_vars

\* the program points of one grow_centers run before it returns
GrowingPcs == {"grow_bin", "grow_seed", "set_maximum", "remove_foothills"}

AllCells(a) == {<<r, c>> : r \in 0..(NumRows(a) - 1), c \in 0..(NumCols(a) - 1)}

\* the cell holds GLOBBED, or the capture index of a flood that set_maximum
\* finalized with its marks left in place
Terminal(x) ==
    \/ At(marked, x) = GLOBBED
    \/ \E k \in Kept : floods[k].index = At(marked, x) /\ x \in floods[k].cells

TerminalStays ==
    pc \in GrowingPcs =>
        \A x \in AllCells(marked) : Terminal(x) => At(marked', x) = At(marked, x)

\* C18: within one grow_centers run, a cell that holds GLOBBED or the capture
\* index of a flood finalized with its marks in place is changed by no later
\* step of set_maximum or remove_foothills (so no positive capture index is
\* overwritten with GLOBBED).
C18_TerminalStays == [][TerminalStays]_vars

C18_Witness ==
    /\ pc = "set_maximum" /\ Len(marked_so_far) > 0
    /\ \E x \in AllCells(marked) : At(marked, x) = GLOBBED
    /\ \E k \in Kept :
          /\ floods[k].b > b
          /\ \A x \in floods[k].cells : At(marked, x) = floods[k].index

\* grow_centers sets capture_index to 1, and from then on a step moves it on
\* by one exactly when set_maximum returns true and leaves it otherwise
IndexSteps ==
    /\ pc = "grow_centers" => capture_index' = 1
    /\ (pc \in GrowingPcs /\ SmReturns /\ Last(floods').captured) =>
           capture_index' = capture_index + 1
    /\ (pc \in GrowingPcs /\ ~(SmReturns /\ Last(floods').captured)) =>
           capture_index' = capture_index

\* the floods finalized with their marks left in place carry strictly
\* increasing capture indices, and each index in the grid is theirs alone
IndicesIncrease ==
    pc \in GrowingPcs =>
        /\ capture_index >= 1
        /\ \A j, k \in Kept : j < k => floods[j].index < floods[k].index
        /\ \A k \in Kept : floods[k].index < capture_index
        /\ \A l \in PositiveLabels(marked) :
               \/ Cardinality({k \in Kept : floods[k].index = l}) = 1
               \/ pc = "set_maximum" /\ l = capture_index

\* C19: capture_index starts at 1 and never decreases; it is incremented once
\* per set_maximum call that returns true and not when it returns false, so
\* the indices left in the Label Grid by successive finalized floods are
\* strictly increasing and no index is left by two floods.
C19_IndexSteps == [][IndexSteps]_vars /\ []IndicesIncrease

C19_Witness ==
    /\ pc = "grow_seed"
    /\ Cardinality(Kept) >= 2
    /\ \A k \in Kept : floods[k].index \in PositiveLabels(marked)
    /\ \E j \in 1..Len(floods) : \E k \in Kept :
          j < k /\ ~floods[j].captured /\ floods[j].index = floods[k].index

\* the seeds set_maximum was called for at level lev, in the order of the
\* calls, and those of them it returned false for
CentersIn(fs) == [k \in 1..Len(fs) |-> fs[k].center]
AttemptsAt(lev) == CentersIn(SelectSeq(floods, LAMBDA f : f.b = lev))
DeferredAt(lev) == CentersIn(SelectSeq(floods, LAMBDA f : f.b = lev /\ ~f.captured))

\* the seeds deferred at the level above lev
DeferredAbove(lev) == IF lev >= self.max_bin THEN <<>> ELSE DeferredAt(lev + 1)

IsPrefix(s, t) == Len(s) <= Len(t) /\ SubSeq(t, 1, Len(s)) = s

RECURSIVE IsSubseq(_, _)
IsSubseq(s, t) ==
    IF Len(s) = 0 THEN TRUE
    ELSE IF Len(t) = 0 THEN FALSE
    ELSE IF Head(s) = Head(t) THEN IsSubseq(Tail(s), Tail(t))
    ELSE IsSubseq(s, Tail(t))

\* the levels grow_centers is through with
LevelsDone == {lev \in 0..self.max_bin : b < lev}

\* the floods are attempted at levels that never rise
HighToLow == \A k \in 1..(Len(floods) - 1) : floods[k].b >= floods[k + 1].b

\* C20 as stated: bin levels are processed from highest to lowest; at each
\* level floods are attempted first for the seeds deferred at the level
\* above, in the order they were deferred, then for centers of Centers[b] in
\* their recorded order; every seed deferred at a level is attempted again at
\* the next lower level.
C20_DeferredAllFirst ==
    pc \in GrowingPcs =>
        /\ HighToLow
        /\ \A lev \in LevelsDone :
               /\ IsPrefix(DeferredAbove(lev), AttemptsAt(lev))
               /\ IsSubseq(SubSeq(AttemptsAt(lev), Len(DeferredAbove(lev)) + 1,
                                   Len(AttemptsAt(lev))),
                            centers[lev])

\* the attempts of level lev are deferred seeds of the level above, in their
\* order, followed by centers of the bin, in their order; the seeds of either
\* list left out hold a mark
DeferredFirst(lev) ==
    LET a == AttemptsAt(lev)
        d == DeferredAbove(lev)
    IN  /\ \E n \in 0..Len(a) :
              /\ IsSubseq(SubSeq(a, 1, n), d)
              /\ IsSubseq(SubSeq(a, n + 1, Len(a)), centers[lev])
        /\ \A x \in (ToSet(d) \cup ToSet(centers[lev])) \ ToSet(a) :
              At(marked, x) # UNMARKED

\* grow_centers calls set_maximum for the seed in turn exactly when the cell
\* of the seed is UNMARKED
AttemptsUnmarked ==
    (pc = "grow_seed" /\ i < TotCenters) =>
        (pc' = "set_maximum" <=> At(marked, center') = UNMARKED)

\* C20 as amended: levels are processed from highest to lowest; at each level
\* the seeds deferred at the level above come first, in the order they were
\* deferred, then the centers of Centers[b] in their order; a flood is
\* attempted for a seed only if its cell is still UNMARKED at its turn, so a
\* deferred seed that a flood or a foothill has marked meanwhile is dropped
\* and not attempted again.
C20_DeferredFirst ==
    /\ [](pc \in GrowingPcs => (HighToLow /\ \A lev \in LevelsDone : DeferredFirst(lev)))
    /\ [][AttemptsUnmarked]_vars

C20_Witness ==
    /\ pc \in GrowingPcs
    /\ \E lev \in LevelsDone :
          /\ Len(DeferredAbove(lev)) > 0
          /\ Len(AttemptsAt(lev)) > 1
          /\ AttemptsAt(lev)[1] = DeferredAbove(lev)[1]
          /\ Last(AttemptsAt(lev)) \in ToSet(centers[lev])
    /\ \E lev \in LevelsDone :
          \E x \in ToSet(DeferredAbove(lev)) \ ToSet(AttemptsAt(lev)) :
              At(marked, x) > 0

\* set_maximum returns: a record of the seed and its glob candidates is
\* appended exactly when the flood has max_size pixels or more, and then
\* true is returned and the marks stay
RecordsBig ==
    SmReturns =>
        IF Len(marked_so_far) >= self.max_size
          THEN /\ foothills' = Append(foothills, <<center, as_glob>>)
               /\ Last(floods').captured
               /\ marked' = marked
               /\ \A x \in CellsOf(marked, marked_so_far) : At(marked', x) = capture_index
          ELSE foothills' = foothills

\* remove_foothills returns only when it has taken up every record, and
\* leaves the list empty
RecordsConsumed ==
    (pc = "remove_foothills" /\ pc' = "grow_bin") =>
        /\ foot_k > Len(foothills)
        /\ foothills' = <<>>

\* a level starts with no record, and the records of a level are those of
\* the floods of that level that reached max_size
RecordsOfLevel ==
    /\ pc = "grow_bin" => foothills = <<>>
    /\ pc \in {"grow_seed", "set_maximum", "remove_foothills"} =>
           CentersIn(SelectSeq(floods, LAMBDA f : f.b = b /\ f.size >= self.max_size))
               = [k \in 1..Len(foothills) |-> foothills[k][1]]

\* C21: set_maximum appends a Foothill Record exactly when the newly-marked
\* count is >= max_size, and then returns true and keeps all marks even if
\* the flood was flagged for reconsideration; the records are consumed by
\* the remove_foothills call of the same level, which leaves the list empty.
C21_RecordsBig == [][RecordsBig /\ RecordsConsumed]_vars /\ []RecordsOfLevel

C21_Witness ==
    /\ pc = "remove_foothills" /\ Len(foothills) > 0 /\ foot_k > Len(foothills)
    /\ Len(hills) = 0
    /\ will_be_considered_again
    /\ Last(floods).big_enough /\ Last(floods).b = b
    /\ Last(foothills)[1] = Last(floods).center
    /\ Len(Last(foothills)[2]) > 0
    /\ \A x \in Last(floods).cells : At(marked, x) = Last(floods).index

\* the claim map with every cell of the set sq at the value lev
Claimed(m, sq, lev) ==
    [r \in 1..NumRows(m) |-> [c \in 1..NumCols(m) |->
        IF <<r - 1, c - 1>> \in sq THEN lev ELSE m[r][c]]]

\* one attempt of find_local_maxima: with a claimed cell in the influence
\* square of the pixel nothing changes, otherwise the whole square is
\* claimed and the pixel recorded
AllOrNothing ==
    pc = "flm_pixel" =>
        LET sq == ClippedSquare(flm_marked, Visited, infl_dist)
        IN  IF \E x \in sq : At(flm_marked, x) # UNMARKED
              THEN flm_marked' = flm_marked /\ centers' = centers
              ELSE /\ pc' # "raised"
                   /\ flm_marked' = Claimed(flm_marked, sq, flm_b)
                   /\ centers'[flm_b] = Append(centers[flm_b], Visited)

\* the recorded centers, each with the influence square of its bin
SquaresOf(cs) ==
    UNION {{[p |-> cs[lev][k],
             sq |-> ClippedSquare(q_data, cs[lev][k],
                                  InflDist(lev, self, MIN_INFL, MAX_INFL))] :
               k \in 1..Len(cs[lev])} : lev \in DOMAIN cs}

SquaresDisjoint ==
    (pc \in {"flm_bin", "flm_pixel", "grow_centers"} /\ self.max_bin > 0) =>
        \A x, y \in SquaresOf(centers) :
            x.p # y.p => (x.sq \cap y.sq = {} /\ x.p \notin y.sq)

\* C22: a claim attempt of find_local_maxima is all-or-nothing (a claimed
\* cell in the influence square leaves the claim map and Centers as they
\* were, otherwise the whole square is set to b and the pixel is added), so
\* the influence squares of two centers are disjoint and no center lies in
\* the square of another.
C22_AllOrNothing == [][AllOrNothing]_vars /\ []SquaresDisjoint

\* no center of a bin from bin_num / 2 up is nearer to x than c0 is
NoneNearer(x, c0, bin_num) ==
    \A lev \in DOMAIN centers :
        lev >= bin_num \div 2 =>
            \A k \in 1..Len(centers[lev]) : Dist2(x, centers[lev][k]) >= Dist2(x, c0)

\* the neighbours of pt that join the foothill flood
JoinsFlood(pt) ==
    {x \in Clipped(marked, pt) \ {pt} :
        /\ At(marked, x) = UNMARKED
        /\ At(q_data, x) >= 0
        /\ At(q_data, x) < bin_lower
        /\ (At(q_data, x) <= At(q_data, pt) \/ NoneNearer(x, foot_center, b))}

\* a pop of remove_foothills sets the popped pixel to GLOBBED and adds just
\* the neighbours that join the flood; no other step sets a cell to GLOBBED
GlobsPopped ==
    IF pc = "remove_foothills" /\ Len(hills) > 0
      THEN /\ marked' = Put(marked, Last(hills), GLOBBED)
           /\ Len(hills') >= Len(hills) - 1
           /\ SubSeq(hills', 1, Len(hills) - 1) = Front(hills)
           /\ ToSet(SubSeq(hills', Len(hills), Len(hills'))) = JoinsFlood(Last(hills))
      ELSE pc \in GrowingPcs =>
               \A x \in AllCells(marked) :
                   At(marked', x) = GLOBBED => At(marked, x) = GLOBBED

\* C23: in remove_foothills every popped pixel is set to GLOBBED; a
\* neighbour of the popped pixel is added to the flood exactly when it is
\* UNMARKED, its level q has 0 <= q < bin_lower, and q <= the level of the
\* popped pixel or is_closest holds for it; no other pixel is set to GLOBBED.
C23_GlobsPopped == [][GlobsPopped]_vars

\* the squared distance of two points
SqDist(x, y) == (x[1] - y[1]) ^ 2 + (x[2] - y[2]) ^ 2

\* the recorded centers of the bins from lev up
CentersFrom(cs, lev) == UNION {ToSet(cs[k]) : k \in {j \in DOMAIN cs : j >= lev}}

\* C24: is_closest(point, center, centers, bin_num) returns true exactly when
\* no center recorded in a bin from bin_num / 2 (integer division) up to the
\* highest bin is strictly nearer to point than center is; centers of lower
\* bins are not compared and equal distances do not disqualify.
C24_NoneNearer ==
    (closest # NoValue /\ closest.returned # NoValue) =>
        (closest.returned[1] <=>
            \A c \in CentersFrom(closest.centers, closest.bin_num \div 2) :
                SqDist(closest.point, c) >= SqDist(closest.point, closest.center))

C24_Witness ==
    /\ closest # NoValue /\ closest.returned = <<TRUE>>
    /\ closest.bin_num \div 2 > 0
    /\ \E c \in ToSet(closest.centers[0]) :
          SqDist(closest.point, c) < SqDist(closest.point, closest.center)
    /\ \E c \in CentersFrom(closest.centers, closest.bin_num \div 2) :
          /\ c # closest.center
          /\ SqDist(closest.point, c) = SqDist(closest.point, closest.center)

\* grow_centers has left its loop over the bin levels
LevelsOver == pc = "grow_bin" /\ b < 0

\* every seed of Centers was taken up by set_maximum, which in the end
\* returned true for it, or its cell holds a mark
AllFinalized ==
    \A lev \in DOMAIN centers : \A k \in 1..Len(centers[lev]) :
        \/ \E j \in 1..Len(floods) :
               floods[j].center = centers[lev][k] /\ floods[j].captured
        \/ At(marked, centers[lev][k]) # UNMARKED

\* a call of set_maximum at bin_lower 0 returns true
LowestReturnsTrue ==
    (SmReturns /\ bin_lower = 0) =>
        (Last(floods').captured /\ deferred_to_next' = deferred_to_next)

\* C25: a set_maximum call with bin_lower == 0 always returns true, so once
\* the lowest level is processed the deferred queue is empty and every
\* center has been finalized (captured or discarded) or was found marked
\* when its turn came; grow_centers gets there in every run.
C25_AllFinalized ==
    /\ [][LowestReturnsTrue]_vars
    /\ [](LevelsOver => (deferred_to_next = <<>> /\ AllFinalized))
    /\ (pc = "grow_centers" ~> LevelsOver)

C25_Witness ==
    /\ LevelsOver
    /\ deferred_to_next = <<>>
    /\ \E j \in 1..Len(floods) : ~floods[j].captured
    /\ \E j \in 1..Len(floods) : floods[j].bin_lower = 0 /\ floods[j].captured

\* the cells the quantized grid excludes
ExcludedCells == {x \in AllCells(q_data) : At(q_data, x) = -1}

\* C26: at every point of grow_centers each Label Grid cell holds UNMARKED,
\* GLOBBED or a positive capture index not above capture_index (never
\* TOOSMALL), and every cell of quantized value -1 stays UNMARKED: it is
\* never a seed, never given a capture index and never GLOBBED.
C26_MarksInRange ==
    pc \in GrowingPcs =>
        /\ \A x \in AllCells(marked) :
               \/ At(marked, x) \in {UNMARKED, GLOBBED}
               \/ At(marked, x) >= 1 /\ At(marked, x) <= capture_index
        /\ \A x \in ExcludedCells : At(marked, x) = UNMARKED
        /\ \A k \in 1..Len(floods) : floods[k].center \notin ExcludedCells
        /\ pc = "set_maximum" => center \notin ExcludedCells

C26_Witness ==
    /\ pc = "remove_foothills" /\ Len(hills) = 0 /\ foot_k > Len(foothills)
    /\ \E x \in AllCells(marked) : At(marked, x) = GLOBBED
    /\ \E x \in AllCells(marked) : At(marked, x) >= 2
    /\ \E x \in ExcludedCells : \E y \in AllCells(marked) :
          Adjacent(x, y) /\ At(marked, y) >= 1
    /\ \E x \in ExcludedCells : \E y \in AllCells(marked) :
          Adjacent(x, y) /\ At(marked, y) = GLOBBED

----------------------------------------------------------------------------
(* Properties of ObjectTracker.                                            *)

\* the pairs of step t have been applied: tracks[t] is current_data, future_0
\* is tracks[t+1] as match saw it
Applied == tpc \in {"match", "relabel"} /\ track_t >= 1
CurrentData == tracks[track_t]
FutureData == tracks[track_t + 1]

\* the objects of current_data that share a cell with the object label_f of
\* future_0
Overlapping(label_f) ==
    {a \in ToSet(Regions(CurrentData)) :
        Where(CurrentData, a) \cap Where(future_0, label_f) # {}}
AreaOf(arr, label) == Cardinality(Where(arr, label))

\* C11: an object at t+1 that two or more objects at t overlap is relabelled
\* with the label of the one of them that has the largest area.
C11_MergedTakesLargest ==
    Applied =>
        \A label_f \in ToSet(Regions(future_0)) :
            Cardinality(Overlapping(label_f)) >= 2 =>
                \E a \in Overlapping(label_f) :
                    /\ \A o \in Overlapping(label_f) :
                          AreaOf(CurrentData, a) >= AreaOf(CurrentData, o)
                    /\ \A x \in Where(future_0, label_f) : FutureData[x[1]][x[2]] = a

\* the cells of a 3-D array
CellsOfAll(arrs) ==
    {<<k, r, c>> : k \in 1..Len(arrs), r \in 1..Len(arrs[1]), c \in 1..Len(arrs[1][1])}
Cell(arrs, x) == arrs[x[1]][x[2]][x[3]]

\* C12: relabel returns an array whose non-zero labels are exactly 1..N, N being
\* the number of distinct objects (non-zero labels) of its argument, and two
\* cells share a label afterwards exactly when they shared one before.
C12_RelabelDense ==
    (tpc = "done" /\ track_data # NoValue) =>
        /\ ValuesOfAll(tracks) \ {0} = 1..Cardinality(ValuesOfAll(track_data) \ {0})
        /\ \A x, y \in CellsOfAll(track_data) :
              (Cell(tracks, x) = Cell(tracks, y)) <=> (Cell(track_data, x) = Cell(track_data, y))

\* the elements of seq at the positions of the set keep, in their order
KeptOf(seq, keep) ==
    LET at == SelectSeq([k \in 1..Len(seq) |-> k], LAMBDA k : k \in keep)
    IN  [k \in 1..Len(at) |-> seq[at[k]]]

\* the positions of after_0 that hold the label l
PairsOf(l) == {k \in 1..Len(after_0) : after_0[k] = l}
Mergers == {l \in ToSet(after_0) : Cardinality(PairsOf(l)) > 1}

\* C13: after check_for_mergers no label occurs twice in labels_after; of the
\* pairs of a label that occurred several times the one kept has the
\* before-label of largest area; entries are removed from both lists at the
\* same positions, and the pairs outside a merger are all kept.
C13_MergersResolved ==
    (tpc = "done" /\ track_data = NoValue) =>
        \E keep \in SUBSET (1..Len(before_0)) :
            /\ labels_before = KeptOf(before_0, keep)
            /\ labels_after = KeptOf(after_0, keep)
            /\ \A k \in 1..Len(after_0) : after_0[k] \notin Mergers => k \in keep
            /\ \A l \in Mergers :
                  /\ Cardinality(PairsOf(l) \cap keep) = 1
                  /\ \A k \in PairsOf(l) \cap keep : \A j \in PairsOf(l) :
                        areas_before[before_0[k]] >= areas_before[before_0[j]]

\* the frames match was called with in the step at hand
FrameA == tracks[track_t + 1]
FrameB == tracks[track_t + 2]

\* the overlap score of label la of FrameA and label lb of FrameB, as the
\* fraction <<cells shared, cells of la + cells of lb>>
CellsWith(arr, v) == {x \in (1..Len(arr)) \X (1..Len(arr[1])) : arr[x[1]][x[2]] = v}
Score(la, lb) ==
    <<Cardinality(CellsWith(FrameA, la) \cap CellsWith(FrameB, lb)),
      Cardinality(CellsWith(FrameA, la)) + Cardinality(CellsWith(FrameB, lb))>>

\* the pairs of positive labels whose score is above percent_overlap
Possible ==
    {pr \in {v \in ValuesOf(FrameA) : v > 0} \X {v \in ValuesOf(FrameB) : v > 0} :
        Score(pr[1], pr[2])[1] * tracker.percent_overlap[2]
            > tracker.percent_overlap[1] * Score(pr[1], pr[2])[2]}

NoRepeat(seq) == \A j, k \in 1..Len(seq) : j # k => seq[j] # seq[k]

\* what match returned: a one-to-one pairing of possible pairs, in an order
\* of scores that never rises, and no possible pair left out but for a pair
\* accepted before it, of at least its score, that holds one of its labels
OneToOne ==
    tpc = "check_for_mergers" =>
        /\ Len(labels_before) = Len(labels_after)
        /\ NoRepeat(labels_before) /\ NoRepeat(labels_after)
        /\ \A k \in 1..Len(labels_before) : <<labels_before[k], labels_after[k]>> \in Possible
        /\ \A j, k \in 1..Len(labels_before) :
               j < k => Score(labels_before[j], labels_after[j])[1]
                            * Score(labels_before[k], labels_after[k])[2]
                        >= Score(labels_before[k], labels_after[k])[1]
                            * Score(labels_before[j], labels_after[j])[2]
        /\ \A pr \in Possible :
               \E k \in 1..Len(labels_before) :
                   /\ labels_before[k] = pr[1] \/ labels_after[k] = pr[2]
                   /\ Score(labels_before[k], labels_after[k])[1] * Score(pr[1], pr[2])[2]
                          >= Score(pr[1], pr[2])[1] * Score(labels_before[k], labels_after[k])[2]

\* check_for_mergers and check_for_splits leave the pairs as they are
PairsKept ==
    tpc \in {"check_for_mergers", "check_for_splits"} =>
        (labels_before' = labels_before /\ labels_after' = labels_after)

====
